---- MODULE Spec2Model ----
(***************************************************************************)
(* Model of src/train.py: the start-up code of the script (class-count     *)
(* padding, class split, shard classifier construction) and train_model,   *)
(* the per-worker training loop with its two all-gather collectives.       *)
(* One process per rank runs the same program (SPMD); the ranks only       *)
(* interact through the collectives of the process group.                  *)
(***************************************************************************)
EXTENDS Integers, Sequences, FiniteSets, TLC

\* ---------------------------------------------------------------- bounds
MaxWorldSize == 2       \* largest process group explored
NumEpochs == 2          \* opt.num_epochs of the explored runs
LoaderLen == 21         \* len(data_loader) of the long explored runs
ShortLoaderLen == 3     \* len(data_loader) of the short explored runs
LocalBatchSize == 2     \* opt.batch_size of the explored runs
LastBatchSize == 1      \* size of the last batch of an epoch
MaxClasses == 4         \* largest dataset class count explored

\* ------------------------------------------------------ program constants
LogInterval == 10       \* the literal 10 of "step % 10 == 0"

None == <<>>            \* Python's None / an absent tensor or gradient

VARIABLES
    world_size,         \* torch.distributed.get_world_size()
    args,               \* the parsed command line (same for every rank)
    dataset_classes,    \* len(image_dataset.classes)
    loader_len,         \* len(data_loader), the same on every rank
    num_classes,        \* num_classes[r]: opt.num_classes of rank r
    class_split,        \* class_split[r]: the class split rank r computed
    part_fc,            \* part_fc[r]: out_features of rank r's classifier
    weight_holders,     \* weight_holders[k]: ranks holding shard k's weight
    weight_writers,     \* weight_writers[k]: <<rank, operation>> that wrote it
    pc,                 \* pc[r]: where rank r is in the program
    epoch, step,        \* loop counters of train_model
    sampler_epoch,      \* epoch given to sampler.set_epoch, -1 before
    seeds,              \* seeds[r]: every value given to sampler.set_epoch
    batch_size,         \* labels.size(0) of the current step
    images,             \* sample ids of the current local batch
    phases,             \* phases[r]: operations of the current step, in order
    features,           \* output of model(images): a tensor record
    features_gather,    \* receive buffers of the embedding all-gather
    x,                  \* torch.cat(features_gather, dim=0)
    logit,              \* part_fc(x): shape and owning shard
    compute_loss,       \* the flag of line 76
    loss_finite,        \* whether loss.item() of this step is finite
    features_grad,      \* gradient that backward left on features
    weight_grad,        \* whether backward left a gradient on part_fc.weight
    overflow,           \* amp found inf/nan gradients in this step
    stepped,            \* which optimizers applied an update in this step
    log_gate,           \* outcome of the "if" of line 88, with its step
    logits_gather,      \* receive buffers of the logits all-gather
    logits,             \* torch.cat(logits_gather, dim=1), rank 0 only
    batch_acc,          \* whether this rank computed/reported accuracy
    calls,              \* calls[r]: collectives rank r has entered so far
    sent_features,      \* sent_features[r][slot]: embeddings r published
    sent_logit          \* sent_logit[r]: logits r published

cfg_vars == <<world_size, args, dataset_classes, loader_len>>
setup_vars == <<num_classes, class_split, part_fc>>
weight_vars == <<weight_holders, weight_writers>>
loop_vars == <<epoch, step, sampler_epoch, seeds>>
batch_vars == <<batch_size, images>>
fwd_vars == <<features, features_gather, x, logit>>
loss_vars == <<compute_loss, loss_finite>>
bwd_vars == <<features_grad, weight_grad, overflow, stepped>>
metric_vars == <<log_gate, logits_gather, logits, batch_acc>>
group_vars == <<calls, sent_features, sent_logit>>

vars == <<cfg_vars, setup_vars, weight_vars, pc, loop_vars, batch_vars,
          phases, fwd_vars, loss_vars, bwd_vars, metric_vars, group_vars>>

Ranks == 0 .. (world_size - 1)

\* ---------------------------------------------------------------- helpers
RECURSIVE SumSeq(_)
SumSeq(s) == IF s = <<>> THEN 0 ELSE Head(s) + SumSeq(Tail(s))

RECURSIVE CatRows(_, _, _)
\* concatenation of list[from], ..., list[to] (a function on ranks) by rows
CatRows(list, from, to) ==
    IF from > to THEN <<>>
    ELSE list[from].val \o CatRows(list, from + 1, to)

\* ----------------------------------------------------------- start-up code
\* line 124: opt.distributed = True
Distributed == TRUE

\* variant: the shard classifier is wrapped for data parallelism as well
DdpWrappedBoth == {"model", "part_fc"}

\* line 190: model = DDP(model, delay_allreduce=True); part_fc is not wrapped
DdpWrapped == {"model"}

\* variant: the training call is not guarded by the fp16 flag
TrainingEnabledAlways == TRUE

\* line 181: if opt.fp16 and opt.distributed (the only call of train_model)
TrainingEnabled == args.fp16 /\ Distributed

\* line 144-145: opt.num_classes is raised to the dataset's class count
EffectiveNumClasses(arg, found) == IF arg < found THEN found ELSE arg

\* variant: the padding statement is lost
PadNumClassesNone(n, w) == n

\* line 150: opt.num_classes += opt.world_size - opt.num_classes % opt.world_size
PadNumClasses(n, w) == n + (w - (n % w))

\* utils.get_class_split: balanced split, the remainder goes to early shards
get_class_split(n, num_gpus) ==
    [i \in 1 .. num_gpus |->
        (n \div num_gpus) + (IF i - 1 < n % num_gpus THEN 1 ELSE 0)]

\* ------------------------------------------------------------ tensor model
\* A tensor is its rows (val) and the autograd sources it is differentiable
\* with respect to (graph).
Embed(sample) == sample                 \* the embedding row of a sample

\* DistributedSampler: every rank holds NumSamples indices per epoch, the
\* q-th index of rank r being entry q * world_size + r of the permutation
\* that the epoch seeds (a rotation stands for torch.randperm)
NumSamples == (loader_len - 1) * LocalBatchSize + LastBatchSize

SamplerIndex(seed, r, q) ==
    ((q * world_size + r + seed + 1) % (NumSamples * world_size)) + 1

\* model(images, labels=onehot_label)
Model(imgs) ==
    [val |-> [j \in 1 .. Len(imgs) |-> Embed(imgs[j])], graph |-> {"features"}]

\* torch.zeros_like(t): a fresh leaf that requires no gradient
ZerosLike(t) == [val |-> [j \in 1 .. Len(t.val) |-> 0], graph |-> {}]

\* dist.all_gather writes the received rows into the buffer in place; the
\* buffer keeps its (empty) autograd history
CopyInto(buf, rows) == [buf EXCEPT !.val = rows]

RECURSIVE CatRowsDescending(_, _, _)
CatRowsDescending(list, from, to) ==
    IF from > to THEN <<>>
    ELSE list[to].val \o CatRowsDescending(list, from, to - 1)

\* variant: the buffers are concatenated in descending rank order
CatDescending(list, w) ==
    [val |-> CatRowsDescending(list, 0, w - 1),
     graph |-> UNION {list[j].graph : j \in 0 .. (w - 1)}]

\* torch.cat(list, dim=0) over the ranks in ascending order
Cat(list, w) ==
    [val |-> CatRows(list, 0, w - 1),
     graph |-> UNION {list[j].graph : j \in 0 .. (w - 1)}]

\* part_fc(x): nn.Linear(256, class_split[rank], bias=False)
Linear(t, out_features, r) ==
    [rows |-> Len(t.val), cols |-> out_features, shards |-> {r},
     graph |-> t.graph \cup {"part_fc.weight"}]

\* variant: the two dimensions of the receive buffer are exchanged
ZerosLogitTransposed(rows, cols) ==
    [rows |-> cols, cols |-> rows, shards |-> {}, graph |-> {}]

\* torch.zeros(rows, cols): an empty receive buffer for logits
ZerosLogit(rows, cols) ==
    [rows |-> rows, cols |-> cols, shards |-> {}, graph |-> {}]

\* variant: the gathered logits keep the autograd history of the sender
CopyLogitIntoWithGraph(buf, l) == l

\* dist.all_gather fills a logits buffer in place with a peer's logits
CopyLogitInto(buf, l) == [buf EXCEPT !.shards = l.shards]

RECURSIVE SumCols(_, _, _)
SumCols(list, from, to) ==
    IF from > to THEN 0 ELSE list[from].cols + SumCols(list, from + 1, to)

\* torch.cat(list, dim=1) over the ranks in ascending order
CatCols(list, w) ==
    [rows |-> list[0].rows, cols |-> SumCols(list, 0, w - 1),
     shards |-> UNION {list[j].shards : j \in 0 .. (w - 1)},
     graph |-> UNION {list[j].graph : j \in 0 .. (w - 1)}]

\* gradient of the loss with respect to the rows of x on rank r (symbolic)
GlobalGrad(r, n) == [i \in 1 .. n |-> 1000 * (r + 1) + i]

Slice(rows, r, bs) == SubSeq(rows, r * bs + 1, (r + 1) * bs)

\* ------------------------------------------------------------- the cadence
\* variant: only the coordinating rank computes the loss
ComputeLossRankZero(r) == step[r] > 0 /\ step[r] % LogInterval = 0 /\ r = 0

\* variant: the "step > 0" conjunct of the flag is lost
ComputeLossFromZero(r) == step[r] % LogInterval = 0

\* line 76: compute_loss = step > 0 and step % 10 == 0
ComputeLoss(r) == step[r] > 0 /\ step[r] % LogInterval = 0

\* variant: the logits all-gather is entered by the coordinating rank only
MetricGateRankZero(r) == step[r] > 0 /\ step[r] % LogInterval = 0 /\ r = 0

\* variant: the "step > 0" conjunct is lost
MetricGateFromZero(r) == step[r] % LogInterval = 0

\* variant: the gate counts the steps of the whole run, not of the epoch
MetricGateGlobalStep(r) ==
    LET g == epoch[r] * loader_len + step[r] IN g > 0 /\ g % LogInterval = 0

\* line 88: if step > 0 and step % 10 == 0
MetricGate(r) == step[r] > 0 /\ step[r] % LogInterval = 0

\* variant: the rank test is lost
IsCoordinatorAny(r) == TRUE

\* line 93: if opt.rank == 0
IsCoordinator(r) == r = 0

\* labels.size(0): the loader's last batch of an epoch may be smaller
BatchSizeAt(s) ==
    IF s = loader_len - 1 THEN LastBatchSize ELSE LocalBatchSize

\* -------------------------------------------------------- the process group
\* a rank's entry into a collective: the operation, the tensor it passes
\* and the iteration it is in
Call(kind, operand, r) ==
    [kind |-> kind, operand |-> operand, epoch |-> epoch[r], step |-> step[r]]

Slot(k) == k % 2

\* variant: a collective returns without waiting for the peers
ArrivedNoWait(r) == TRUE

\* A rank leaves its k-th collective once every rank has entered its own
\* k-th collective and that collective is the same operation.
Arrived(r) ==
    LET k == Len(calls[r]) IN
        \A j \in Ranks : /\ Len(calls[j]) >= k
                         /\ calls[j][k].kind = calls[r][k].kind

\* -------------------------------------------------------------------- Init
NoTensor == [val |-> <<>>, graph |-> {}]
NoLogit == [rows |-> 0, cols |-> 0, shards |-> {}, graph |-> {}]
NoGate == [epoch |-> -1, step |-> -1, taken |-> FALSE]
NoUpdate == [model |-> FALSE, part_fc |-> FALSE]

InitWorkers ==
    /\ num_classes = [r \in Ranks |-> args.num_classes]
    /\ class_split = [r \in Ranks |-> None]
    /\ part_fc = [r \in Ranks |-> 0]
    /\ weight_holders = [r \in Ranks |-> {}]
    /\ weight_writers = [r \in Ranks |-> {}]
    /\ pc = [r \in Ranks |-> "main"]
    /\ epoch = [r \in Ranks |-> 0]
    /\ step = [r \in Ranks |-> 0]
    /\ sampler_epoch = [r \in Ranks |-> -1]
    /\ seeds = [r \in Ranks |-> <<>>]
    /\ batch_size = [r \in Ranks |-> 0]
    /\ images = [r \in Ranks |-> <<>>]
    /\ phases = [r \in Ranks |-> <<>>]
    /\ features = [r \in Ranks |-> NoTensor]
    /\ features_gather = [r \in Ranks |-> None]
    /\ x = [r \in Ranks |-> NoTensor]
    /\ logit = [r \in Ranks |-> NoLogit]
    /\ compute_loss = [r \in Ranks |-> FALSE]
    /\ loss_finite = [r \in Ranks |-> TRUE]
    /\ features_grad = [r \in Ranks |-> None]
    /\ weight_grad = [r \in Ranks |-> FALSE]
    /\ overflow = [r \in Ranks |-> FALSE]
    /\ stepped = [r \in Ranks |-> NoUpdate]
    /\ log_gate = [r \in Ranks |-> NoGate]
    /\ logits_gather = [r \in Ranks |-> None]
    /\ logits = [r \in Ranks |-> NoLogit]
    /\ batch_acc = [r \in Ranks |-> FALSE]
    /\ calls = [r \in Ranks |-> <<>>]
    /\ sent_features = [r \in Ranks |-> [k \in 0 .. 1 |-> <<>>]]
    /\ sent_logit = [r \in Ranks |-> NoLogit]

Init ==
    /\ world_size \in 1 .. MaxWorldSize
    /\ loader_len \in {ShortLoaderLen, LoaderLen}
    /\ dataset_classes = MaxClasses
    /\ args \in [model_parallel : BOOLEAN, fp16 : BOOLEAN,
                 num_classes : {0}, num_epochs : {NumEpochs}]
    /\ InitWorkers

\* ----------------------------------------------------- __main__, 143-193
Main(r) ==
    /\ pc[r] = "main"
    /\ LET n0 == EffectiveNumClasses(num_classes[r], dataset_classes)
           n == IF args.model_parallel
                THEN PadNumClasses(n0, world_size) ELSE n0
           split == IF args.model_parallel
                    THEN get_class_split(n, world_size) ELSE None
       IN /\ num_classes' = [num_classes EXCEPT ![r] = n]
          /\ class_split' = [class_split EXCEPT ![r] = split]
          /\ IF split = None
             THEN \* line 171: class_split[opt.rank] on None raises TypeError
                  /\ pc' = [pc EXCEPT ![r] = "crashed"]
                  /\ UNCHANGED <<part_fc, weight_vars>>
             ELSE \* line 171: the classifier is built on this rank; line 190:
                  \* wrapping a module broadcasts rank 0's parameters
                  /\ part_fc' = [part_fc EXCEPT ![r] = split[r + 1]]
                  /\ IF "part_fc" \in DdpWrapped
                     THEN /\ weight_holders' = [weight_holders EXCEPT
                                 ![r] = @ \cup {r}, ![0] = @ \cup {r}]
                          /\ weight_writers' = [weight_writers EXCEPT
                                 ![r] = {<<r, "nn.Linear">>,
                                         <<0, "DDP.broadcast">>}]
                     ELSE /\ weight_holders' = [weight_holders EXCEPT
                                 ![r] = @ \cup {r}]
                          /\ weight_writers' = [weight_writers EXCEPT
                                 ![r] = {<<r, "nn.Linear">>}]
                  /\ pc' = [pc EXCEPT ![r] =
                               IF TrainingEnabled THEN "epoch" ELSE "done"]
    /\ UNCHANGED <<cfg_vars, loop_vars, batch_vars, phases, fwd_vars,
                   loss_vars, bwd_vars, metric_vars, group_vars>>

\* variant: the sampler is given the same value in every epoch
SetEpochArgumentFixed(r) == 0

\* line 52: sampler.set_epoch(epoch)
SetEpochArgument(r) == epoch[r]

\* ------------------------------------------------- train_model, line 50-53
EpochBegin(r) ==
    /\ pc[r] = "epoch"
    /\ epoch[r] < args.num_epochs
    /\ IF Distributed
       THEN /\ sampler_epoch' = [sampler_epoch EXCEPT
                                     ![r] = SetEpochArgument(r)]
            /\ seeds' = [seeds EXCEPT ![r] = Append(@, SetEpochArgument(r))]
       ELSE UNCHANGED <<sampler_epoch, seeds>>
    /\ step' = [step EXCEPT ![r] = 0]
    /\ pc' = [pc EXCEPT ![r] = "fetch"]
    /\ UNCHANGED <<cfg_vars, setup_vars, weight_vars, phases,
                   epoch, batch_vars, fwd_vars,
                   loss_vars, bwd_vars, metric_vars, group_vars>>

\* variant: the samples are dealt out unevenly, a higher rank has more batches
LenDataLoaderUneven(r) == loader_len + r

\* line 54: len(data_loader); the DistributedSampler of line 36 gives every
\* rank the same number of samples
LenDataLoader(r) == loader_len

\* range(opt.num_epochs) is exhausted: train_model returns, the script ends
TrainReturn(r) ==
    /\ pc[r] = "epoch"
    /\ epoch[r] >= args.num_epochs
    /\ pc' = [pc EXCEPT ![r] = "done"]
    /\ UNCHANGED <<cfg_vars, setup_vars, weight_vars, phases,
                   loop_vars, batch_vars, fwd_vars,
                   loss_vars, bwd_vars, metric_vars, group_vars>>

\* range(len(data_loader)) is exhausted: next epoch
EpochEnd(r) ==
    /\ pc[r] = "fetch"
    /\ step[r] >= LenDataLoader(r)
    /\ epoch' = [epoch EXCEPT ![r] = epoch[r] + 1]
    /\ pc' = [pc EXCEPT ![r] = "epoch"]
    /\ UNCHANGED <<cfg_vars, setup_vars, weight_vars, phases,
                   step, sampler_epoch, seeds,
                   batch_vars, fwd_vars, loss_vars, bwd_vars, metric_vars,
                   group_vars>>

\* line 54-66: next batch, label routing, zero_grad.  The values of the
\* previous iteration are all overwritten before they are read again.
FetchBatch(r) ==
    /\ pc[r] = "fetch"
    /\ step[r] < LenDataLoader(r)
    /\ LET bs == BatchSizeAt(step[r]) IN
          /\ batch_size' = [batch_size EXCEPT ![r] = bs]
          /\ images' = [images EXCEPT ![r] =
                 [j \in 1 .. bs |->
                     SamplerIndex(sampler_epoch[r], r,
                                  step[r] * LocalBatchSize + j - 1)]]
    /\ features' = [features EXCEPT ![r] = NoTensor]
    /\ features_gather' = [features_gather EXCEPT ![r] = None]
    /\ x' = [x EXCEPT ![r] = NoTensor]
    /\ logit' = [logit EXCEPT ![r] = NoLogit]
    /\ compute_loss' = [compute_loss EXCEPT ![r] = FALSE]
    /\ features_grad' = [features_grad EXCEPT ![r] = None]
    /\ weight_grad' = [weight_grad EXCEPT ![r] = FALSE]
    /\ logits_gather' = [logits_gather EXCEPT ![r] = None]
    /\ logits' = [logits EXCEPT ![r] = NoLogit]
    /\ batch_acc' = [batch_acc EXCEPT ![r] = FALSE]
    /\ pc' = [pc EXCEPT ![r] = "forward"]
    /\ phases' = [phases EXCEPT
           ![r] = <<"FetchBatch", "RouteLabels", "ZeroGrad">>]
    /\ UNCHANGED <<cfg_vars, setup_vars, weight_vars,
                   loop_vars, loss_finite, overflow,
                   stepped, log_gate, group_vars>>

\* line 69: features = model(images, labels=onehot_label)
Forward(r) ==
    /\ pc[r] = "forward"
    /\ features' = [features EXCEPT ![r] = Model(images[r])]
    /\ pc' = [pc EXCEPT ![r] = "gather"]
    /\ phases' = [phases EXCEPT ![r] = Append(@, "Forward")]
    /\ UNCHANGED <<cfg_vars, setup_vars, weight_vars, loop_vars, batch_vars,
                   features_gather, x, logit, loss_vars, bwd_vars,
                   metric_vars, group_vars>>

\* line 70-71: allocate the receive buffers and enter dist.all_gather
GatherEnter(r) ==
    /\ pc[r] = "gather"
    /\ features_gather' = [features_gather EXCEPT
                              ![r] = [j \in Ranks |-> ZerosLike(features[r])]]
    /\ calls' = [calls EXCEPT
           ![r] = Append(@, Call("all_gather_features", "features", r))]
    /\ sent_features' = [sent_features EXCEPT
                            ![r][Slot(Len(calls[r]) + 1)] = features[r].val]
    /\ pc' = [pc EXCEPT ![r] = "gather_wait"]
    /\ phases' = [phases EXCEPT ![r] = Append(@, "AllGatherEmbeddings")]
    /\ UNCHANGED <<cfg_vars, setup_vars, weight_vars,
                   loop_vars, batch_vars, features, x,
                   logit, loss_vars, bwd_vars, metric_vars, sent_logit>>

\* line 71-73: dist.all_gather returns; x = torch.cat(...); logit = part_fc(x)
GatherExit(r) ==
    /\ pc[r] = "gather_wait"
    /\ Arrived(r)
    /\ LET k == Len(calls[r])
           filled == [j \in Ranks |->
                         CopyInto(features_gather[r][j],
                                  sent_features[j][Slot(k)])]
           cat == Cat(filled, world_size)
       IN /\ features_gather' = [features_gather EXCEPT ![r] = filled]
          /\ x' = [x EXCEPT ![r] = cat]
          /\ logit' = [logit EXCEPT ![r] = Linear(cat, part_fc[r], r)]
          \* every rank has left the previous collective: its send buffer
          \* is released
          /\ sent_features' = [sent_features EXCEPT
                                  ![r][Slot(k + 1)] = <<>>]
    /\ pc' = [pc EXCEPT ![r] = "loss"]
    /\ phases' = [phases EXCEPT ![r] = Append(@, "ShardClassify")]
    /\ UNCHANGED <<cfg_vars, setup_vars, weight_vars,
                   loop_vars, batch_vars, features,
                   loss_vars, bwd_vars, metric_vars, calls, sent_logit>>

\* DistModelParallelCrossEntropy: the row-max and sum-exp all-reduces are
\* run exactly when the loss is computed
CriterionReduces(flag) == flag

\* line 76-77: compute_loss = ...; loss = criterion(logit, ..., compute_loss, ...)
Criterion(r) ==
    /\ pc[r] = "loss"
    /\ compute_loss' = [compute_loss EXCEPT ![r] = ComputeLoss(r)]
    /\ IF CriterionReduces(ComputeLoss(r))
       THEN /\ calls' = [calls EXCEPT
                   ![r] = Append(@, Call("all_reduce_max", "logit.max", r))]
            /\ pc' = [pc EXCEPT ![r] = "reduce_max"]
       ELSE /\ pc' = [pc EXCEPT ![r] = "backward"]
            /\ UNCHANGED calls
    /\ phases' = [phases EXCEPT
           ![r] = Append(@, IF ComputeLoss(r) THEN "ComputeLoss"
                            ELSE "SkipLossCompute")]
    /\ UNCHANGED <<cfg_vars, setup_vars, weight_vars,
                   loop_vars, batch_vars, fwd_vars,
                   loss_finite, bwd_vars, metric_vars, sent_features,
                   sent_logit>>

\* the all-reduce of the row maxima returns, the sum-exp all-reduce starts
ReduceMaxExit(r) ==
    /\ pc[r] = "reduce_max"
    /\ Arrived(r)
    /\ calls' = [calls EXCEPT
           ![r] = Append(@, Call("all_reduce_sum", "logit.sum_exp", r))]
    /\ pc' = [pc EXCEPT ![r] = "reduce_sum"]
    /\ UNCHANGED <<cfg_vars, setup_vars, weight_vars, phases,
                   loop_vars, batch_vars, fwd_vars,
                   loss_vars, bwd_vars, metric_vars, sent_features,
                   sent_logit>>

\* the sum-exp all-reduce returns, criterion returns the loss
ReduceSumExit(r) ==
    /\ pc[r] = "reduce_sum"
    /\ Arrived(r)
    /\ pc' = [pc EXCEPT ![r] = "backward"]
    /\ UNCHANGED <<cfg_vars, setup_vars, weight_vars, phases,
                   loop_vars, batch_vars, fwd_vars,
                   loss_vars, bwd_vars, metric_vars, group_vars>>

\* variant: backward and the optimizer calls are skipped together with the
\* loss computation
BackwardOnlyWhenLoss(r) ==
    /\ pc[r] = "backward"
    /\ IF compute_loss[r]
       THEN /\ \E finite \in BOOLEAN :
                  loss_finite' = [loss_finite EXCEPT ![r] = finite]
            /\ features_grad' = [features_grad EXCEPT ![r] =
                   IF "features" \in logit[r].graph
                   THEN Slice(GlobalGrad(r, logit[r].rows), r, batch_size[r])
                   ELSE None]
            /\ weight_grad' = [weight_grad EXCEPT
                                  ![r] = "part_fc.weight" \in logit[r].graph]
            /\ \E found \in BOOLEAN :
                  overflow' = [overflow EXCEPT ![r] = found]
            /\ phases' = [phases EXCEPT ![r] = Append(@, "Backward")]
            /\ pc' = [pc EXCEPT ![r] = "step"]
       ELSE /\ pc' = [pc EXCEPT ![r] = "log"]
            /\ UNCHANGED <<loss_finite, features_grad, weight_grad, overflow,
                           phases>>
    /\ UNCHANGED <<cfg_vars, setup_vars, weight_vars, loop_vars, batch_vars,
                   fwd_vars, compute_loss, stepped, metric_vars, group_vars>>

\* line 80-83: with amp.scale_loss(...) as scaled_loss: scaled_loss.backward()
\* loss.item() is read (line 82) and may or may not be finite.  Gradients
\* reach the autograd sources of logit.  On leaving the block amp checks the
\* gradients for inf/nan and arms the skip of the next step().
Backward(r) ==
    /\ pc[r] = "backward"
    /\ \E finite \in BOOLEAN :
          loss_finite' = [loss_finite EXCEPT ![r] = finite]
    /\ features_grad' = [features_grad EXCEPT ![r] =
           IF "features" \in logit[r].graph
           THEN Slice(GlobalGrad(r, logit[r].rows), r, batch_size[r])
           ELSE None]
    /\ weight_grad' = [weight_grad EXCEPT
                          ![r] = "part_fc.weight" \in logit[r].graph]
    /\ \E found \in BOOLEAN : overflow' = [overflow EXCEPT ![r] = found]
    /\ pc' = [pc EXCEPT ![r] = "step"]
    /\ phases' = [phases EXCEPT ![r] = Append(@, "Backward")]
    /\ UNCHANGED <<cfg_vars, setup_vars, weight_vars,
                   loop_vars, batch_vars, fwd_vars,
                   compute_loss, stepped, metric_vars, group_vars>>

\* line 84-85: optimizer.step(); optimizer_part_fc.step()
\* SGD updates the parameters that hold a gradient; amp turns both calls
\* into no-ops after a gradient overflow.
OptimizerStep(r) ==
    /\ pc[r] = "step"
    /\ stepped' = [stepped EXCEPT ![r] =
           [model |-> ~overflow[r] /\ features_grad[r] # None,
            part_fc |-> ~overflow[r] /\ weight_grad[r]]]
    /\ pc' = [pc EXCEPT ![r] = "log"]
    /\ weight_writers' = [weight_writers EXCEPT
           ![r] = @ \cup {<<r, "optimizer_part_fc.step">>}]
    /\ phases' = [phases EXCEPT
           ![r] = @ \o <<"OptimizerStep", "OptimizerPartFcStep">>]
    /\ UNCHANGED <<cfg_vars, setup_vars, weight_holders,
                   loop_vars, batch_vars, fwd_vars,
                   loss_vars, features_grad, weight_grad, overflow,
                   metric_vars, group_vars>>

\* line 87-92: the metric gate; on a metric step allocate the receive
\* buffers and enter the logits all-gather, otherwise the iteration ends.
\* The outcome of the step's backward and optimizer calls is not read again.
Log(r) ==
    /\ pc[r] = "log"
    /\ loss_finite' = [loss_finite EXCEPT ![r] = TRUE]
    /\ overflow' = [overflow EXCEPT ![r] = FALSE]
    /\ stepped' = [stepped EXCEPT ![r] = NoUpdate]
    /\ LET total_batch_size == batch_size[r] * world_size IN
       /\ log_gate' = [log_gate EXCEPT ![r] =
              [epoch |-> epoch[r], step |-> step[r], taken |-> MetricGate(r)]]
       /\ IF MetricGate(r)
          THEN /\ logits_gather' = [logits_gather EXCEPT ![r] =
                      [j \in Ranks |->
                          ZerosLogit(total_batch_size, class_split[r][j + 1])]]
               /\ calls' = [calls EXCEPT
                      ![r] = Append(@, Call("all_gather_logits", "logit", r))]
               /\ sent_logit' = [sent_logit EXCEPT ![r] = logit[r]]
               /\ pc' = [pc EXCEPT ![r] = "logits_wait"]
               /\ UNCHANGED step
          ELSE /\ step' = [step EXCEPT ![r] = step[r] + 1]
               /\ pc' = [pc EXCEPT ![r] = "fetch"]
               /\ UNCHANGED <<logits_gather, calls, sent_logit>>
    /\ UNCHANGED <<cfg_vars, setup_vars, weight_vars, phases,
                   epoch, sampler_epoch, seeds,
                   batch_vars, fwd_vars, compute_loss, features_grad,
                   weight_grad, logits,
                   batch_acc, sent_features>>

\* line 92-99: dist.all_gather returns; rank 0 concatenates the logits and
\* computes and logs the batch accuracy; the iteration ends
LogitsGatherExit(r) ==
    /\ pc[r] = "logits_wait"
    /\ Arrived(r)
    /\ LET filled == [j \in Ranks |->
                         CopyLogitInto(logits_gather[r][j], sent_logit[j])]
       IN /\ logits_gather' = [logits_gather EXCEPT ![r] = filled]
          /\ IF IsCoordinator(r)
             THEN /\ logits' = [logits EXCEPT
                                   ![r] = CatCols(filled, world_size)]
                  /\ batch_acc' = [batch_acc EXCEPT ![r] = TRUE]
             ELSE UNCHANGED <<logits, batch_acc>>
    /\ step' = [step EXCEPT ![r] = step[r] + 1]
    /\ pc' = [pc EXCEPT ![r] = "fetch"]
    /\ UNCHANGED <<cfg_vars, setup_vars, weight_vars, phases,
                   epoch, sampler_epoch, seeds,
                   batch_vars, fwd_vars, loss_vars, bwd_vars, log_gate,
                   group_vars>>

\* ---------------------------------------------------------- specification
Next ==
    \E r \in Ranks :
        \/ Main(r)
        \/ EpochBegin(r)
        \/ TrainReturn(r)
        \/ EpochEnd(r)
        \/ FetchBatch(r)
        \/ Forward(r)
        \/ GatherEnter(r)
        \/ GatherExit(r)
        \/ Criterion(r)
        \/ ReduceMaxExit(r)
        \/ ReduceSumExit(r)
        \/ Backward(r)
        \/ OptimizerStep(r)
        \/ Log(r)
        \/ LogitsGatherExit(r)

Spec == Init /\ [][Next]_vars

\* Every rank is a process of its own that the operating system keeps
\* running: as long as some rank can take a step, a step is taken.
FairSpec == Spec /\ WF_vars(Next)

\* The start-up code alone, over a wider range of class counts
InitSetup ==
    /\ world_size \in 1 .. MaxWorldSize
    /\ loader_len \in {ShortLoaderLen, LoaderLen}
    /\ dataset_classes \in 1 .. MaxClasses
    /\ args \in [model_parallel : BOOLEAN, fp16 : BOOLEAN,
                 num_classes : 0 .. (MaxClasses + 1),
                 num_epochs : {NumEpochs}]
    /\ InitWorkers

NextSetup == \E r \in Ranks : Main(r)

SpecSetup == InitSetup /\ [][NextSetup]_vars

TypeOK ==
    /\ world_size \in 1 .. MaxWorldSize
    /\ \A r \in Ranks : pc[r] \in
          {"main", "crashed", "done", "epoch", "fetch", "forward", "gather",
           "gather_wait", "loss", "reduce_max", "reduce_sum", "backward",
           "step", "log", "logits_wait"}

\* ================================================================ properties
\* the cadence as the specification states it
IsCadenceStep(s) == s > 0 /\ s % 10 = 0

InLoop(r) == pc[r] \notin {"main", "crashed", "done", "epoch"}

\* how often rank r has entered the collective kind for step s of epoch e
Count(r, kind, e, s) ==
    Cardinality({i \in 1 .. Len(calls[r]) :
                    /\ calls[r][i].kind = kind
                    /\ calls[r][i].epoch = e
                    /\ calls[r][i].step = s})

Min(a, b) == IF a <= b THEN a ELSE b

\* (epoch, step) of call a is not after that of call b
NotAfter(a, b) == a.epoch < b.epoch \/ (a.epoch = b.epoch /\ a.step <= b.step)

\* C1: all ranks issue the same sequence of collectives: any two ranks agree
\* on every collective both have entered, a rank enters collectives in step
\* order, and when a rank has finished a step it has entered the embedding
\* all-gather of that step once and its logits all-gather once if it is a
\* cadence step and not at all otherwise (whatever the rank).
C1_SameCollectives ==
    /\ \A r1 \in Ranks : \A r2 \in Ranks :
          r1 < r2 =>
             \A i \in 1 .. Min(Len(calls[r1]), Len(calls[r2])) :
                calls[r1][i] = calls[r2][i]
    /\ \A r \in Ranks :
          /\ \A i \in 1 .. (Len(calls[r]) - 1) :
                NotAfter(calls[r][i], calls[r][i + 1])
          /\ (InLoop(r) /\ step[r] > 0) =>
                /\ Count(r, "all_gather_features", epoch[r], step[r] - 1) = 1
                /\ Count(r, "all_gather_logits", epoch[r], step[r] - 1) =
                      (IF IsCadenceStep(step[r] - 1) THEN 1 ELSE 0)

\* a rank other than 0 has been through the logits all-gather of a cadence
\* step and has moved on to the next step
C1_Witness ==
    \E r \in Ranks :
        /\ r # 0
        /\ pc[r] = "forward"
        /\ log_gate[r].taken
        /\ step[r] = log_gate[r].step + 1
        /\ Count(r, "all_gather_logits", epoch[r], log_gate[r].step) = 1

BackwardStarted(r) == pc[r] \in {"step", "log", "logits_wait"}

\* rank j has entered the embedding all-gather of step s of epoch e
EnteredGather(j, e, s) == Count(j, "all_gather_features", e, s) >= 1

\* rank j has returned from the embedding all-gather of step s of epoch e
CompletedGather(j, e, s) ==
    \/ epoch[j] > e
    \/ epoch[j] = e /\ step[j] > s
    \/ /\ epoch[j] = e
       /\ step[j] = s
       /\ pc[j] \in {"loss", "reduce_max", "reduce_sum", "backward", "step",
                     "log", "logits_wait"}

\* C3 as stated: no rank starts Backward of a step before every rank has
\* completed (returned from) the embedding all-gather of that step.
C3_AllCompletedBeforeBackward ==
    \A r \in Ranks : \A j \in Ranks :
        BackwardStarted(r) => CompletedGather(j, epoch[r], step[r])

\* C3 amended: no rank starts Backward of a step before every rank has
\* entered the embedding all-gather of that step and published its local
\* embeddings.
C3_AllEnteredBeforeBackward ==
    \A r \in Ranks : \A j \in Ranks :
        BackwardStarted(r) => EnteredGather(j, epoch[r], step[r])

\* one rank is past Backward while a peer is still inside the all-gather
C3_Witness ==
    \E r \in Ranks : \E j \in Ranks :
        /\ r # j
        /\ pc[r] = "step"
        /\ pc[j] = "gather_wait"
        /\ epoch[j] = epoch[r]
        /\ step[j] = step[r]

\* ---------------------------------------------------------------------- C4
\* C4: after Backward the gradient on rank r's local embeddings is the slice
\* of the gradient of the gathered GlobalBatch at r's rank-ordered offset,
\* and it is not dropped.
C4_GradientIsOwnSlice ==
    \A r \in Ranks :
        BackwardStarted(r) =>
            /\ features_grad[r] # None
            /\ features_grad[r] =
                  SubSeq(GlobalGrad(r, batch_size[r] * world_size),
                         r * batch_size[r] + 1, (r + 1) * batch_size[r])

\* ---------------------------------------------------------------------- C5
\* x of rank r is the GlobalBatch of the rank's current step
PastGather(r) ==
    pc[r] \in {"loss", "reduce_max", "reduce_sum", "backward", "step", "log",
               "logits_wait"}

\* features of rank j are the local embeddings of the rank's current step
HasFeatures(j) == pc[j] \in {"gather", "gather_wait"} \/ PastGather(j)

SameStep(r, j) == epoch[r] = epoch[j] /\ step[r] = step[j]

\* C5: after the embedding all-gather a rank holds LocalBatchSize x WorldSize
\* rows; the rows at the offset of any rank j are j's local embeddings of
\* that step (ascending rank order), in particular the rows at its own
\* offset are its own; two ranks past the gather of a step hold the same x.
C5_GatherThenSlice ==
    \A r \in Ranks :
        PastGather(r) =>
            /\ Len(x[r].val) = batch_size[r] * world_size
            /\ SubSeq(x[r].val, r * batch_size[r] + 1,
                      (r + 1) * batch_size[r]) = features[r].val
            /\ \A j \in Ranks :
                  /\ (SameStep(r, j) /\ HasFeatures(j)) =>
                        SubSeq(x[r].val, j * batch_size[r] + 1,
                               (j + 1) * batch_size[r]) = features[j].val
                  /\ (SameStep(r, j) /\ PastGather(j)) => x[r] = x[j]

\* two ranks hold the gathered batch of the same full-size step
C5_Witness ==
    \E r \in Ranks : \E j \in Ranks :
        /\ r # j
        /\ PastGather(r) /\ PastGather(j) /\ SameStep(r, j)
        /\ batch_size[r] = LocalBatchSize
        /\ Len(x[r].val) = LocalBatchSize * world_size
        /\ features[r].val # features[j].val

\* ---------------------------------------------------------------------- C6
SetUp(r) == pc[r] # "main"

\* C6: in model-parallel mode a class count that is a multiple of WorldSize
\* reaches the partitioner unchanged, any other is padded to the next
\* multiple.
C6_PadOnlyWhenNeeded ==
    \A r \in Ranks :
        (SetUp(r) /\ args.model_parallel) =>
            LET n0 == IF args.num_classes < dataset_classes
                      THEN dataset_classes ELSE args.num_classes
            IN  /\ (n0 % world_size = 0) => num_classes[r] = n0
                /\ (n0 % world_size # 0) =>
                      num_classes[r] = n0 + world_size - (n0 % world_size)

\* ---------------------------------------------------------------------- C7
\* C7: the padded class count is a multiple of WorldSize and at least
\* WorldSize; class_split has WorldSize entries that sum to it and are all
\* equal; every rank computes the same split and sizes its classifier with
\* its own entry.
C7_BalancedSplit ==
    \A r \in Ranks :
        (SetUp(r) /\ args.model_parallel) =>
            /\ num_classes[r] % world_size = 0
            /\ num_classes[r] >= world_size
            /\ Len(class_split[r]) = world_size
            /\ SumSeq(class_split[r]) = num_classes[r]
            /\ \A i \in 1 .. world_size : \A k \in 1 .. world_size :
                  /\ class_split[r][i] - class_split[r][k] <= 1
                  /\ class_split[r][i] = class_split[r][k]
            /\ part_fc[r] = class_split[r][r + 1]
            /\ \A j \in Ranks : SetUp(j) => class_split[j] = class_split[r]

\* every rank of a group of several has split a class count that needed padding
C7_Witness ==
    /\ world_size > 1
    /\ args.model_parallel
    /\ dataset_classes % world_size # 0
    /\ args.num_classes < dataset_classes
    /\ \A r \in Ranks : SetUp(r) /\ class_split[r] # None

\* ---------------------------------------------------------------------- C8
\* the receive buffers of rank r hold the logits of every shard
HoldsAllShards(r) ==
    /\ logits_gather[r] # None
    /\ UNION {logits_gather[r][j].shards : j \in Ranks} = Ranks

\* C8 as stated: the full logits are reconstructed and accuracy is computed
\* on rank 0 only, and no other rank ever holds the logits of all shards.
C8_OnlyRankZeroHoldsLogits ==
    \A r \in Ranks :
        r # 0 => /\ logits[r] = NoLogit
                 /\ ~batch_acc[r]
                 /\ ~HoldsAllShards(r)

\* C8 amended: the logits all-gather leaves the logits of all shards in the
\* receive buffers of every rank; only rank 0 concatenates them into the
\* full [GlobalBatchSize, NumClasses] matrix and computes the accuracy.
C8_OnlyRankZeroConcatenates ==
    \A r \in Ranks :
        /\ (logits[r] # NoLogit \/ batch_acc[r]) => r = 0
        /\ logits[r] # NoLogit =>
              /\ logits[r].rows = batch_size[r] * world_size
              /\ logits[r].cols = num_classes[r]
              /\ logits[r].shards = Ranks
              /\ batch_acc[r]
        /\ (logits_gather[r] # None /\ pc[r] # "logits_wait") =>
              HoldsAllShards(r)

\* in a group of several ranks, rank 0 has built the full matrix and another
\* rank has left the same logits all-gather
C8_Witness ==
    /\ world_size > 1
    /\ logits[0] # NoLogit
    /\ \E r \in Ranks : r # 0 /\ pc[r] = "fetch" /\ HoldsAllShards(r)

\* ---------------------------------------------------------------------- C9
\* C9: when the loss of a step is not finite, neither optimizer applies an
\* update in that step.
C9_NonFiniteLossSkipsStep ==
    \A r \in Ranks :
        (pc[r] = "log" /\ ~loss_finite[r]) => stepped[r] = NoUpdate

\* --------------------------------------------------------------------- C10
PastCriterion(r) ==
    pc[r] \in {"reduce_max", "reduce_sum", "backward", "step", "log",
               "logits_wait"}

\* C10: compute_loss and the metric gate of a step both equal
\* (step > 0 and step % 10 == 0), and two ranks at the same (epoch, step)
\* have taken the same branch at each of the two.
C10_CadenceIsFunctionOfStep ==
    \A r \in Ranks :
        /\ PastCriterion(r) => (compute_loss[r] <=> IsCadenceStep(step[r]))
        /\ log_gate[r].step >= 0 =>
              (log_gate[r].taken <=> IsCadenceStep(log_gate[r].step))
        /\ \A j \in Ranks :
              /\ (PastCriterion(r) /\ PastCriterion(j) /\ SameStep(r, j)) =>
                    compute_loss[r] = compute_loss[j]
              /\ (log_gate[r].epoch = log_gate[j].epoch
                    /\ log_gate[r].step = log_gate[j].step) =>
                    log_gate[r].taken = log_gate[j].taken

\* two ranks have both computed the loss and passed the gate of a cadence step
C10_Witness ==
    \E r \in Ranks : \E j \in Ranks :
        /\ r # j
        /\ SameStep(r, j)
        /\ pc[r] = "logits_wait" /\ pc[j] = "logits_wait"
        /\ compute_loss[r] /\ compute_loss[j]
        /\ log_gate[r].taken /\ log_gate[j].taken
        /\ log_gate[r].step = step[r] /\ log_gate[j].step = step[j]

\* ------------------------------------------------------------------- C11
\* the operations of a step that the specification puts in order
IsOrdered(p) ==
    p \in {"FetchBatch", "RouteLabels", "Forward", "AllGatherEmbeddings",
           "ShardClassify", "ComputeLoss", "SkipLossCompute", "Backward",
           "OptimizerStep", "OptimizerPartFcStep"}

\* the order the specification gives for step s
StepOrder(s) ==
    <<"FetchBatch", "RouteLabels", "Forward", "AllGatherEmbeddings",
      "ShardClassify",
      IF IsCadenceStep(s) THEN "ComputeLoss" ELSE "SkipLossCompute",
      "Backward", "OptimizerStep", "OptimizerPartFcStep">>

IsPrefix(a, b) == Len(a) <= Len(b) /\ SubSeq(b, 1, Len(a)) = a

InStep(r) == pc[r] \notin {"main", "crashed", "done", "epoch", "fetch"}

StepBodyDone(r) == pc[r] \in {"log", "logits_wait"}

\* C11: the ordered operations a rank has performed in its current step are
\* always an initial part of FetchBatch, RouteLabels, Forward,
\* AllGatherEmbeddings, ShardClassify, the loss call (computing exactly on
\* cadence steps), Backward, OptimizerStep, OptimizerPartFcStep; once the
\* optimizer calls are made, and when the step has ended, they are exactly
\* that list, so each operation (the label router, backward and both
\* optimizer calls among them) has run once, on loss-skipping steps too.
C11_StepOrder ==
    \A r \in Ranks :
        /\ InStep(r) =>
              IsPrefix(SelectSeq(phases[r], IsOrdered), StepOrder(step[r]))
        /\ StepBodyDone(r) =>
              SelectSeq(phases[r], IsOrdered) = StepOrder(step[r])
        /\ (pc[r] = "fetch" /\ step[r] > 0) =>
              SelectSeq(phases[r], IsOrdered) = StepOrder(step[r] - 1)

\* a rank has made both optimizer calls of a loss-skipping step that follows
\* a loss-computing one
C11_Witness ==
    \E r \in Ranks :
        /\ pc[r] = "log"
        /\ step[r] = 11
        /\ ~compute_loss[r]
        /\ phases[r][Len(phases[r])] = "OptimizerPartFcStep"

\* ------------------------------------------------------------------- C12
\* C12: the weight of shard k is held by rank k alone, is written only by
\* rank k (when it builds the classifier and in its own
\* optimizer_part_fc.step()), and is never the tensor passed to a
\* collective: the two all-gathers pass the embeddings and the shard logits,
\* the reductions of the criterion pass row statistics of the logits.
C12_WeightStaysLocal ==
    /\ \A k \in Ranks :
          /\ weight_holders[k] \subseteq {k}
          /\ \A w \in weight_writers[k] :
                /\ w[1] = k
                /\ w[2] \in {"nn.Linear", "optimizer_part_fc.step"}
    /\ \A r \in Ranks : \A i \in 1 .. Len(calls[r]) :
          /\ calls[r][i].operand # "part_fc.weight"
          /\ calls[r][i].kind = "all_gather_features" =>
                calls[r][i].operand = "features"
          /\ calls[r][i].kind = "all_gather_logits" =>
                calls[r][i].operand = "logit"
          /\ calls[r][i].kind \in {"all_reduce_max", "all_reduce_sum"} =>
                calls[r][i].operand \in {"logit.max", "logit.sum_exp"}

\* a rank other than rank 0 has updated its shard weight and has been
\* through both all-gathers and the reductions of a cadence step
C12_Witness ==
    \E r \in Ranks :
        /\ r # 0
        /\ pc[r] = "fetch"
        /\ weight_holders[r] = {r}
        /\ <<r, "optimizer_part_fc.step">> \in weight_writers[r]
        /\ \E i \in 1 .. Len(calls[r]) : calls[r][i].kind = "all_gather_logits"
        /\ \E i \in 1 .. Len(calls[r]) : calls[r][i].kind = "all_reduce_sum"

\* ------------------------------------------------------------------- C13
IsUpdate(p) == p \in {"Backward", "OptimizerStep", "OptimizerPartFcStep"}

\* rank r has allocated the receive buffers of the logits all-gather
MetricStarted(r) == logits_gather[r] # None

\* C13: once a rank has started the metric path of a step (buffers
\* allocated, logits gathered, accuracy computed) it has made the backward
\* call and both optimizer calls of that step and runs no loss, backward or
\* optimizer call while the gathered logits exist; the gathered logits and
\* their concatenation carry no autograd history, and the tensor the
\* criterion and backward work on is the rank's own shard logits.
C13_MetricFeedsNoGradient ==
    \A r \in Ranks :
        /\ (MetricStarted(r) \/ batch_acc[r] \/ logits[r] # NoLogit) =>
              /\ SelectSeq(phases[r], IsUpdate) =
                    <<"Backward", "OptimizerStep", "OptimizerPartFcStep">>
              /\ pc[r] \in {"logits_wait", "fetch", "epoch", "done"}
        /\ MetricStarted(r) =>
              \A j \in Ranks : logits_gather[r][j].graph = {}
        /\ logits[r].graph = {}
        /\ PastGather(r) => logit[r].shards = {r}

\* rank 0 has gathered the logits of every shard and computed the accuracy
C13_Witness ==
    /\ world_size > 1
    /\ pc[0] = "fetch"
    /\ batch_acc[0]
    /\ logits[0].shards = Ranks
    /\ \A j \in Ranks : logits_gather[0][j].shards = {j}

\* ------------------------------------------------------------------- C14
\* rank r has passed the metric gate of the step whose flag it still holds
GatePassed(r) ==
    /\ log_gate[r].epoch = epoch[r]
    /\ \/ pc[r] = "logits_wait" /\ log_gate[r].step = step[r]
       \/ pc[r] = "fetch" /\ log_gate[r].step = step[r] - 1

\* C14: when a rank has passed the metric gate of a step, it has entered
\* the logits all-gather of that step (once) if the compute_loss flag it gave
\* to the criterion in that step is true, and not at all if it is false;
\* before the gate it has not entered it.
C14_GatherIffComputeLoss ==
    \A r \in Ranks :
        /\ GatePassed(r) =>
              /\ log_gate[r].taken <=> compute_loss[r]
              /\ Count(r, "all_gather_logits", epoch[r], log_gate[r].step) =
                    (IF compute_loss[r] THEN 1 ELSE 0)
        /\ (PastCriterion(r) /\ pc[r] # "logits_wait") =>
              Count(r, "all_gather_logits", epoch[r], step[r]) = 0

\* a rank other than rank 0 has finished a step in which it computed the
\* loss and gathered the logits
C14_Witness ==
    \E r \in Ranks :
        /\ r # 0
        /\ pc[r] = "fetch"
        /\ GatePassed(r)
        /\ compute_loss[r]
        /\ logits_gather[r] # None
        /\ logits_gather[r][0].shards = {0}

\* ------------------------------------------------------------------- C15
\* C15: a rank inside epoch e has given e to sampler.set_epoch, as the
\* (e+1)-th value it gave; the batch it has just fetched is drawn with that
\* seed; the values a rank has given are pairwise different; and two ranks
\* have given the same value for every epoch both have begun.
C15_EpochSeeds ==
    \A r \in Ranks :
        /\ InLoop(r) =>
              /\ sampler_epoch[r] = epoch[r]
              /\ Len(seeds[r]) = epoch[r] + 1
              /\ seeds[r][epoch[r] + 1] = epoch[r]
        /\ pc[r] = "forward" =>
              images[r][1] =
                 SamplerIndex(epoch[r], r, step[r] * LocalBatchSize)
        /\ \A a \in 1 .. Len(seeds[r]) : \A b \in 1 .. Len(seeds[r]) :
              a # b => seeds[r][a] # seeds[r][b]
        /\ \A j \in Ranks :
              \A e \in 1 .. Min(Len(seeds[r]), Len(seeds[j])) :
                 seeds[r][e] = seeds[j][e]

\* two ranks have fetched the first batch of the second epoch
C15_Witness ==
    \E r \in Ranks : \E j \in Ranks :
        /\ r # j
        /\ epoch[r] = 1 /\ epoch[j] = 1
        /\ step[r] = 0 /\ step[j] = 0
        /\ pc[r] = "forward" /\ pc[j] = "forward"
        /\ seeds[r] = <<0, 1>> /\ seeds[j] = <<0, 1>>

\* ------------------------------------------------------------------- C16
\* the indices 10, 20, ... below len
CadenceSteps(len) == {s \in 0 .. (len - 1) : IsCadenceStep(s)}

\* the steps of epoch e in which rank r has entered the collective kind
StepsOf(r, kind, e) ==
    {calls[r][i].step :
        i \in {k \in 1 .. Len(calls[r]) :
                  calls[r][k].kind = kind /\ calls[r][k].epoch = e}}

\* the cadence steps of its current epoch that rank r has reached the
\* metric block of
CadenceStepsReached(r) ==
    {s \in CadenceSteps(loader_len) :
        s < step[r] \/ (s = step[r] /\ pc[r] = "logits_wait")}

\* C16: the step counter stays within 0 .. len(data_loader) and the first
\* collective a rank enters in an epoch belongs to step 0; the flag given to
\* the criterion is true exactly on the indices 10, 20, ... below
\* len(data_loader), so never in step 0 of any epoch; the steps in which a
\* rank gathered logits are exactly those indices, in every finished epoch
\* and so far in the current one; and with len(data_loader) <= 10 a rank
\* never computes the loss and enters no collective but the embedding
\* all-gather.
C16_CadenceRestartsEachEpoch ==
    \A r \in Ranks :
        /\ InLoop(r) => step[r] \in 0 .. loader_len
        /\ \A i \in 1 .. Len(calls[r]) :
              (i = 1 \/ calls[r][i - 1].epoch < calls[r][i].epoch) =>
                 calls[r][i].step = 0
        /\ PastCriterion(r) =>
              /\ compute_loss[r] <=> step[r] \in CadenceSteps(loader_len)
              /\ step[r] = 0 => ~compute_loss[r]
        /\ \A e \in 0 .. (epoch[r] - 1) :
              StepsOf(r, "all_gather_logits", e) = CadenceSteps(loader_len)
        /\ InLoop(r) =>
              StepsOf(r, "all_gather_logits", epoch[r]) =
                 CadenceStepsReached(r)
        /\ loader_len <= 10 =>
              /\ ~compute_loss[r]
              /\ \A i \in 1 .. Len(calls[r]) :
                    calls[r][i].kind = "all_gather_features"

\* a rank is past the criterion of step 0 of the second epoch, after a
\* first epoch whose logits all-gathers were those of steps 10 and 20
C16_Witness ==
    \E r \in Ranks :
        /\ loader_len = LoaderLen
        /\ epoch[r] = 1
        /\ step[r] = 0
        /\ pc[r] = "backward"
        /\ ~compute_loss[r]
        /\ 10 \in StepsOf(r, "all_gather_logits", 0)
        /\ 20 \in StepsOf(r, "all_gather_logits", 0)

\* ------------------------------------------------------------------- C17
\* rank r has begun train_model or has entered a collective
Trained(r) == pc[r] = "epoch" \/ InLoop(r) \/ seeds[r] # <<>> \/ calls[r] # <<>>

\* C17: a rank that has begun train_model or entered a collective runs with
\* model_parallel and fp16 both set; without model_parallel a rank that has
\* left the start-up code has stopped at the construction of the shard
\* classifier with class_split None, whatever fp16 is; with model_parallel
\* but without fp16 it has ended with its classifier built and without
\* having called train_model.
C17_TrainingNeedsBothFlags ==
    \A r \in Ranks :
        /\ Trained(r) => args.model_parallel /\ args.fp16
        /\ (SetUp(r) /\ ~args.model_parallel) =>
              /\ pc[r] = "crashed"
              /\ class_split[r] = None
              /\ part_fc[r] = 0
              /\ ~Trained(r)
        /\ (SetUp(r) /\ args.model_parallel /\ ~args.fp16) =>
              /\ pc[r] = "done"
              /\ class_split[r] # None
              /\ part_fc[r] = class_split[r][r + 1]
              /\ ~Trained(r)
        /\ pc[r] = "crashed" => ~args.model_parallel

\* with fp16 set and model_parallel not set, every rank has stopped at the
\* construction of the shard classifier
C17_Witness ==
    /\ world_size > 1
    /\ args.fp16
    /\ ~args.model_parallel
    /\ \A r \in Ranks : pc[r] = "crashed" /\ class_split[r] = None

\* ------------------------------------------------------------------- C18
\* rank j has entered the collective that rank r entered last
HasContributed(r, j) == Len(calls[j]) >= Len(calls[r])

\* C18: when a rank has allocated the receive buffers of a logits
\* all-gather, its own logits have one row per row of the gathered batch and
\* class_split[rank] columns; the buffer for rank j has
\* batch_size * world_size rows and class_split[j] columns, and that is the
\* shape of the logits rank j contributes, so the ranks have had the same
\* local batch size in that step; the concatenation on rank 0 has
\* batch_size * world_size rows and num_classes columns.
C18_LogitsShapes ==
    \A r \in Ranks :
        /\ MetricStarted(r) =>
              /\ logit[r].rows = Len(x[r].val)
              /\ logit[r].rows = batch_size[r] * world_size
              /\ logit[r].cols = class_split[r][r + 1]
              /\ \A j \in Ranks :
                    /\ logits_gather[r][j].rows = batch_size[r] * world_size
                    /\ logits_gather[r][j].cols = class_split[r][j + 1]
                    /\ HasContributed(r, j) =>
                          /\ sent_logit[j].rows = logits_gather[r][j].rows
                          /\ sent_logit[j].cols = logits_gather[r][j].cols
                    /\ (pc[r] = "logits_wait" /\ SameStep(r, j) /\ InStep(j)) =>
                          batch_size[j] = batch_size[r]
        /\ batch_acc[r] =>
              /\ logits[r].rows = batch_size[r] * world_size
              /\ logits[r].cols = num_classes[r]

\* rank 0 has concatenated the logits of the last, smaller batch of an epoch
C18_Witness ==
    /\ world_size > 1
    /\ pc[0] = "fetch"
    /\ step[0] = loader_len
    /\ batch_acc[0]
    /\ batch_size[0] = LastBatchSize
    /\ LastBatchSize < LocalBatchSize
    /\ logits[0].rows = LastBatchSize * world_size
    /\ logits[0].shards = Ranks

\* ------------------------------------------------------------------- C19
\* how often rank r has entered the collective kind in the whole run
Total(r, kind) ==
    Cardinality({i \in 1 .. Len(calls[r]) : calls[r][i].kind = kind})

Waiting(r) ==
    pc[r] \in {"gather_wait", "reduce_max", "reduce_sum", "logits_wait"}

\* every rank has ended; a rank that ran train_model has returned from it
\* after num_epochs * len(data_loader) steps, one embedding all-gather in
\* each, and one logits all-gather in each cadence step
AllReturned ==
    \A r \in Ranks :
        /\ pc[r] \in {"done", "crashed"}
        /\ IF args.model_parallel /\ args.fp16
           THEN /\ pc[r] = "done"
                /\ epoch[r] = args.num_epochs
                /\ Total(r, "all_gather_features") =
                      args.num_epochs * loader_len
                /\ Total(r, "all_gather_logits") =
                      args.num_epochs * Cardinality(CadenceSteps(loader_len))
           ELSE calls[r] = <<>>
        /\ \A j \in Ranks :
              /\ Total(j, "all_gather_features") =
                    Total(r, "all_gather_features")
              /\ Total(j, "all_gather_logits") = Total(r, "all_gather_logits")

\* C19: every run ends with every rank returned from train_model, each
\* after num_epochs * len(data_loader) steps and the same number of
\* embedding and of logits all-gathers as every other rank; and once a rank
\* has ended, a rank that is still inside a collective has all its peers'
\* contributions and can leave it.
C19_AllWorkersReturn ==
    /\ [](\A r \in Ranks : \A j \in Ranks :
             (pc[r] = "done" /\ Waiting(j)) => Arrived(j))
    /\ <>[]AllReturned

\* all ranks of a group of several have returned from train_model
C19_Witness ==
    /\ world_size > 1
    /\ loader_len = LoaderLen
    /\ \A r \in Ranks : pc[r] = "done" /\ epoch[r] = NumEpochs
    /\ AllReturned

====
